---- MODULE Spec2Model ----
(* Image verification pipeline: lighting, clarity and face checks run in  *)
(* a fixed order on one decoded image, short-circuiting on the first      *)
(* failing stage.  The numeric primitives (image decode, grayscale mean,  *)
(* Laplacian variance, face-detection inference) are external; an image   *)
(* carries the values those primitives return for it.                     *)
EXTENDS Integers, Sequences, FiniteSets, TLC

(* ------------------------------------------------------------------ *)
(* Configuration (config.py) and status codes                          *)
(* ------------------------------------------------------------------ *)
BLUR_THRESHOLD == 25
LIGHTING_MIN == 40
LIGHTING_MAX == 200
MAX_IMAGE_DIMENSION == 640
PERF_LOGGING_ENABLED == TRUE

GOOD_LIGHTING == "GOOD_LIGHTING"
TOO_DARK == "TOO_DARK"
TOO_BRIGHT == "TOO_BRIGHT"
CLEAR == "CLEAR"
TOO_BLURRY == "TOO_BLURRY"
SUCCESS == "SUCCESS"
NO_FACE == "NO_FACE"
MULTIPLE_FACES == "MULTIPLE_FACES"
INVALID_IMAGE == "INVALID_IMAGE"
MODEL_NOT_FOUND == "MODEL_NOT_FOUND"

ERROR_CODES ==
  [SUCCESS |-> "All validation checks passed. Image verified.",
   INVALID_IMAGE |-> "Image file not found or could not be loaded.",
   TOO_DARK |-> "Image is too dark/underexposed. Please upload a well-lit photo.",
   TOO_BRIGHT |-> "Image is too bright/overexposed. Please reduce lighting.",
   TOO_BLURRY |-> "Image is blurry or out of focus. Please upload a sharp photo.",
   NO_FACE |-> "No face detected. Please upload a photo with your face visible.",
   MULTIPLE_FACES |-> "Multiple faces detected. Please upload a photo with only one person.",
   MODEL_NOT_FOUND |-> "Face detection model file is missing."]

(* Python's None *)
None == [none |-> TRUE]

(* An empty dict *)
EmptyDict == [k \in {} |-> None]

(* ------------------------------------------------------------------ *)
(* Bounds of the model                                                 *)
(* ------------------------------------------------------------------ *)
(* Statistics (mean intensity, variance) are fixed-point numbers in    *)
(* thousandths: one digit finer than the two decimals round() keeps.   *)
Scale == 10 * 100

(* largest number of detections the backend returns for an image *)
MaxDetections == 5
(* largest duration, in ticks, measured around one step *)
MaxElapsedMs == 1
(* statistics within Fine thousandths of a threshold are enumerated *)
Fine == 6
(* longest list of paths handed to verify_batch *)
MaxBatch == 2

(* ------------------------------------------------------------------ *)
(* Inputs                                                              *)
(* ------------------------------------------------------------------ *)
(* height and width of the decoded images *)
ImageShapes ==
  { <<480, 640>>, <<640, 640>>, <<720, 1280>>, <<641, 480>>,
    <<1077, 1077>>, <<2000, 1>> }

(* mean intensities around both lighting bounds, in thousandths *)
CoarseMeans ==
  { 10 * Scale, 120 * Scale } \cup
  { (LIGHTING_MIN + k) * Scale : k \in -1..1 } \cup
  { (LIGHTING_MAX + k) * Scale : k \in -1..1 }

FineMeans ==
  CoarseMeans \cup { 0, 255 * Scale } \cup
  { LIGHTING_MIN * Scale + d : d \in -Fine..Fine } \cup
  { LIGHTING_MAX * Scale + d : d \in -Fine..Fine }

(* Laplacian variances around the blur threshold, in thousandths *)
CoarseVariances == { (BLUR_THRESHOLD + k) * Scale : k \in -1..1 }

FineVariances ==
  CoarseVariances \cup { 0, 100 * Scale } \cup
  { BLUR_THRESHOLD * Scale + d : d \in -Fine..Fine }

(* A decoded image: its shape, and what the external primitives return *)
(* for the buffers the stages derive from it: mean of its grayscale,   *)
(* variance of its Laplacian, number of detections of the backend.     *)
(* Resizing changes the shape and keeps these three values attached.   *)
MkImage(shape, m, v, n) ==
  [h |-> shape[1], w |-> shape[2], mean |-> m, variance |-> v, faces |-> n]

(* images offered to the pipeline *)
PipelineImages ==
  { MkImage(s, m, v, n) : s \in ImageShapes, m \in CoarseMeans,
                          v \in CoarseVariances, n \in 0..MaxDetections }

(* a path or a byte buffer, described by what the decoder makes of it *)
Inputs == { [decodes_to |-> i] : i \in PipelineImages \cup {None} }

(* images and grayscale buffers offered to the evaluators called alone *)
LightingImages ==
  { MkImage(<<480, 640>>, m, BLUR_THRESHOLD * Scale, 1) : m \in FineMeans }
ClarityImages ==
  { MkImage(<<480, 640>>, 120 * Scale, v, 1) : v \in FineVariances }
FaceImages ==
  { MkImage(<<480, 640>>, 120 * Scale, BLUR_THRESHOLD * Scale, n) :
      n \in 0..MaxDetections }
GrayBuffers ==
  { [h |-> 480, w |-> 640, mean |-> m, variance |-> v] :
      m \in { 10 * Scale, 120 * Scale, 250 * Scale },
      v \in { 0, 100 * Scale } }

(* ------------------------------------------------------------------ *)
(* External primitives                                                 *)
(* ------------------------------------------------------------------ *)
(* cv2.imread(path): the decoded image, or None *)
imread(path) == path.decodes_to

(* cv2.imdecode(np.frombuffer(bytes)): the decoded image, or None *)
imdecode(bytes) == bytes.decodes_to

(* cv2.cvtColor(image, COLOR_BGR2GRAY): same shape, one channel *)
cvtColor(image) ==
  [h |-> image.h, w |-> image.w, mean |-> image.mean,
   variance |-> image.variance]

(* np.mean(gray) *)
np_mean(gray) == gray.mean

(* cv2.Laplacian(gray, CV_64F).var() *)
laplacian_var(gray) == gray.variance

(* Values in thousandths that end in 5 and are not ties in binary: the *)
(* double nearest to 39.995 lies below it, the one nearest to 40.005   *)
(* above it.  The other values ending in 5 that the inputs contain     *)
(* (24.995, 25.005, 199.995, 200.005) round to the even hundredth.     *)
BelowTie == { 39995 }
AboveTie == { 40005 }

(* round(x, 2) of a value in thousandths: nearest hundredth of the     *)
(* double, ties to even                                                *)
round2(x) ==
  LET q == x \div 10
      r == x % 10
  IN  IF r < 5 \/ x \in BelowTie THEN 10 * q
      ELSE IF r > 5 \/ x \in AboveTie THEN 10 * (q + 1)
      ELSE IF q % 2 = 0 THEN 10 * q ELSE 10 * (q + 1)

(* ------------------------------------------------------------------ *)
(* Lighting evaluator (src/lighting_check.py)                          *)
(* ------------------------------------------------------------------ *)
_result_lighting(status, mean_intensity, min_threshold, max_threshold, message) ==
  [status |-> status,
   mean_intensity |-> round2(mean_intensity),
   min_threshold |-> min_threshold,
   max_threshold |-> max_threshold,
   message |-> message]

check_lighting_inclusive_dark(image, gray) ==
  IF image = None
    THEN _result_lighting(INVALID_IMAGE, 0, LIGHTING_MIN, LIGHTING_MAX,
                         "Image could not be loaded. Check the file path.")
    ELSE LET g == IF gray = None THEN cvtColor(image) ELSE gray
             mean_intensity == np_mean(g)
         IN  IF mean_intensity <= LIGHTING_MIN * Scale
               THEN _result_lighting(TOO_DARK, mean_intensity, LIGHTING_MIN,
                                    LIGHTING_MAX, "Image is too dark")
             ELSE IF mean_intensity > LIGHTING_MAX * Scale
               THEN _result_lighting(TOO_BRIGHT, mean_intensity, LIGHTING_MIN,
                                    LIGHTING_MAX, "Image is too bright/overexposed")
             ELSE _result_lighting(GOOD_LIGHTING, mean_intensity, LIGHTING_MIN,
                                  LIGHTING_MAX, "Lighting is good")

check_lighting_gray_first(image, gray) ==
  IF gray = None /\ image = None
    THEN _result_lighting(INVALID_IMAGE, 0, LIGHTING_MIN, LIGHTING_MAX,
                         "Image could not be loaded. Check the file path.")
    ELSE LET g == IF gray = None THEN cvtColor(image) ELSE gray
             mean_intensity == np_mean(g)
         IN  IF mean_intensity < LIGHTING_MIN * Scale
               THEN _result_lighting(TOO_DARK, mean_intensity, LIGHTING_MIN,
                                    LIGHTING_MAX, "Image is too dark")
             ELSE IF mean_intensity > LIGHTING_MAX * Scale
               THEN _result_lighting(TOO_BRIGHT, mean_intensity, LIGHTING_MIN,
                                    LIGHTING_MAX, "Image is too bright/overexposed")
             ELSE _result_lighting(GOOD_LIGHTING, mean_intensity, LIGHTING_MIN,
                                  LIGHTING_MAX, "Lighting is good")

check_lighting(image, gray) ==
  IF image = None
    THEN _result_lighting(INVALID_IMAGE, 0, LIGHTING_MIN, LIGHTING_MAX,
                         "Image could not be loaded. Check the file path.")
    ELSE LET g == IF gray = None THEN cvtColor(image) ELSE gray
             mean_intensity == np_mean(g)
         IN  IF mean_intensity < LIGHTING_MIN * Scale
               THEN _result_lighting(TOO_DARK, mean_intensity, LIGHTING_MIN,
                                    LIGHTING_MAX, "Image is too dark")
             ELSE IF mean_intensity > LIGHTING_MAX * Scale
               THEN _result_lighting(TOO_BRIGHT, mean_intensity, LIGHTING_MIN,
                                    LIGHTING_MAX, "Image is too bright/overexposed")
             ELSE _result_lighting(GOOD_LIGHTING, mean_intensity, LIGHTING_MIN,
                                  LIGHTING_MAX, "Lighting is good")

(* ------------------------------------------------------------------ *)
(* Clarity evaluator (src/clarity_check.py)                            *)
(* ------------------------------------------------------------------ *)
_result_clarity(status, variance, threshold, message) ==
  [status |-> status,
   variance |-> round2(variance),
   threshold |-> threshold,
   message |-> message]

check_clarity_exclusive(image, gray) ==
  IF image = None
    THEN _result_clarity(INVALID_IMAGE, 0, BLUR_THRESHOLD,
                        "Image could not be loaded. Check the file path.")
    ELSE LET g == IF gray = None THEN cvtColor(image) ELSE gray
             variance == laplacian_var(g)
         IN  IF variance <= BLUR_THRESHOLD * Scale
               THEN _result_clarity(TOO_BLURRY, variance, BLUR_THRESHOLD,
                                   "Image is too blurry")
               ELSE _result_clarity(CLEAR, variance, BLUR_THRESHOLD,
                                   "Image is clear")

check_clarity_blurry_code(image, gray) ==
  IF image = None
    THEN _result_clarity(INVALID_IMAGE, 0, BLUR_THRESHOLD,
                        "Image could not be loaded. Check the file path.")
    ELSE LET g == IF gray = None THEN cvtColor(image) ELSE gray
             variance == laplacian_var(g)
         IN  IF variance < BLUR_THRESHOLD * Scale
               THEN _result_clarity("BLURRY", variance, BLUR_THRESHOLD,
                                   "Image is too blurry")
               ELSE _result_clarity(CLEAR, variance, BLUR_THRESHOLD,
                                   "Image is clear")

check_clarity(image, gray) ==
  IF image = None
    THEN _result_clarity(INVALID_IMAGE, 0, BLUR_THRESHOLD,
                        "Image could not be loaded. Check the file path.")
    ELSE LET g == IF gray = None THEN cvtColor(image) ELSE gray
             variance == laplacian_var(g)
         IN  IF variance < BLUR_THRESHOLD * Scale
               THEN _result_clarity(TOO_BLURRY, variance, BLUR_THRESHOLD,
                                   "Image is too blurry")
               ELSE _result_clarity(CLEAR, variance, BLUR_THRESHOLD,
                                   "Image is clear")

(* ------------------------------------------------------------------ *)
(* State                                                               *)
(* ------------------------------------------------------------------ *)
VARIABLES
  model_file,     \* what is at MODEL_PATH: "present", "missing", "corrupt"
  proc,           \* "starting", "running", or "import_failed"
  _detector,      \* the backend handle, or None
  _model_ready,   \* readiness flag set at import of face_detector
  call,           \* the verify / verify_from_bytes call in progress
  unit,           \* the last call of an evaluator on its own
  perf_logging,   \* config.PERF_LOGGING_ENABLED of this deployment
  prev,           \* outcome of the previous verification call, or None
  batch,          \* the verify_batch call in progress
  calls,          \* the locals of the concurrent callers
  http            \* the HTTP request being served (src/app.py)

(* state that the steps of a single verification call leave alone *)
aux == <<perf_logging, prev, batch, calls, http>>

vars == <<model_file, proc, _detector, _model_ready, call, unit, aux>>

(* ------------------------------------------------------------------ *)
(* Face-presence evaluator (src/face_detector.py)                      *)
(* ------------------------------------------------------------------ *)
_result_face(status, face_count, message) ==
  [status |-> status, face_count |-> face_count, message |-> message]

(* _load_detector(): the handle, or the exception it raises *)
_load_detector ==
  IF model_file = "missing" THEN [raises |-> "FileNotFoundError"]
  ELSE IF model_file = "corrupt" THEN [raises |-> "RuntimeError"]
  ELSE [handle |-> "FaceDetector"]

(* len(_detector.detect(mp_image).detections) *)
detector_detect_tracking(image) ==
  IF prev = None THEN image.faces ELSE 0

detector_detect(image) == image.faces

(* detect_face(image): ret is the returned dict, detect_calls the number *)
(* of times the backend's detect was invoked                            *)
detect_face_image_first(image) ==
  IF image = None
    THEN [ret |-> _result_face(INVALID_IMAGE, 0, "Image could not be loaded."),
          detect_calls |-> 0]
  ELSE IF ~_model_ready
    THEN [ret |-> _result_face(MODEL_NOT_FOUND, 0, "Model file missing"),
          detect_calls |-> 0]
  ELSE LET face_count == detector_detect(image)
       IN  [ret |-> IF face_count = 0
                      THEN _result_face(NO_FACE, 0, "No face detected.")
                    ELSE IF face_count = 1
                      THEN _result_face(SUCCESS, 1, "Face verified.")
                    ELSE _result_face(MULTIPLE_FACES, face_count,
                                      "Multiple faces detected"),
            detect_calls |-> 1]

detect_face_capped(image) ==
  IF ~_model_ready
    THEN [ret |-> _result_face(MODEL_NOT_FOUND, 0, "Model file missing"),
          detect_calls |-> 0]
  ELSE IF image = None
    THEN [ret |-> _result_face(INVALID_IMAGE, 0, "Image could not be loaded."),
          detect_calls |-> 0]
  ELSE LET face_count == detector_detect(image)
       IN  [ret |-> IF face_count = 0
                      THEN _result_face(NO_FACE, 0, "No face detected.")
                    ELSE IF face_count = 1
                      THEN _result_face(SUCCESS, 1, "Face verified.")
                    ELSE _result_face(MULTIPLE_FACES, 2,
                                      "Multiple faces detected"),
            detect_calls |-> 1]

detect_face_unchecked(image) ==
  IF image = None
    THEN [ret |-> _result_face(INVALID_IMAGE, 0, "Image could not be loaded."),
          detect_calls |-> 0]
  ELSE LET face_count == detector_detect(image)
       IN  [ret |-> IF face_count = 0
                      THEN _result_face(NO_FACE, 0, "No face detected.")
                    ELSE IF face_count = 1
                      THEN _result_face(SUCCESS, 1, "Face verified.")
                    ELSE _result_face(MULTIPLE_FACES, face_count,
                                      "Multiple faces detected"),
            detect_calls |-> 1]

detect_face_null_no_face(image) ==
  IF ~_model_ready
    THEN [ret |-> _result_face(MODEL_NOT_FOUND, 0, "Model file missing"),
          detect_calls |-> 0]
  ELSE LET face_count == IF image = None THEN 0 ELSE detector_detect(image)
       IN  [ret |-> IF face_count = 0
                      THEN _result_face(NO_FACE, 0, "No face detected.")
                    ELSE IF face_count = 1
                      THEN _result_face(SUCCESS, 1, "Face verified.")
                    ELSE _result_face(MULTIPLE_FACES, face_count,
                                      "Multiple faces detected"),
            detect_calls |-> IF image = None THEN 0 ELSE 1]

detect_face(image) ==
  IF ~_model_ready
    THEN [ret |-> _result_face(MODEL_NOT_FOUND, 0, "Model file missing"),
          detect_calls |-> 0]
  ELSE IF image = None
    THEN [ret |-> _result_face(INVALID_IMAGE, 0, "Image could not be loaded."),
          detect_calls |-> 0]
  ELSE LET face_count == detector_detect(image)
       IN  [ret |-> IF face_count = 0
                      THEN _result_face(NO_FACE, 0, "No face detected.")
                    ELSE IF face_count = 1
                      THEN _result_face(SUCCESS, 1, "Face verified.")
                    ELSE _result_face(MULTIPLE_FACES, face_count,
                                      "Multiple faces detected"),
            detect_calls |-> 1]

(* ------------------------------------------------------------------ *)
(* Verification orchestrator (src/verifier.py)                         *)
(* ------------------------------------------------------------------ *)
(* d[k] = v on a dict *)
dict_set(d, k, v) ==
  [x \in DOMAIN d \cup {k} |-> IF x = k THEN v ELSE d[x]]

RECURSIVE dict_sum(_, _)
dict_sum(d, keys) ==
  IF keys = {} THEN 0
  ELSE LET k == CHOOSE x \in keys : TRUE
       IN  d[k] + dict_sum(d, keys \ {k})

(* total time since t_start: the measured steps add up to it *)
total_ms(stage_times) == dict_sum(stage_times, DOMAIN stage_times)

(* Pairs <<x, max_dim>> for which the double product x * (640 / max_dim) *)
(* falls just below the exact quotient's integer value (IEEE-754).       *)
FloatShortfall == { <<1077, 1077>> }

(* int(x * scale) with scale = MAX_IMAGE_DIMENSION / max_dim *)
int_scaled(x, max_dim) ==
  LET exact == (x * MAX_IMAGE_DIMENSION) \div max_dim
  IN  IF <<x, max_dim>> \in FloatShortfall THEN exact - 1 ELSE exact

max2(a, b) == IF a >= b THEN a ELSE b

(* _preprocess_image(image): the pair (image, gray), or the error that *)
(* cv2.resize raises when asked for an empty target size               *)
_preprocess_image(image) ==
  LET max_dim == max2(image.h, image.w)
  IN  IF max_dim > MAX_IMAGE_DIMENSION
        THEN LET new_w == int_scaled(image.w, max_dim)
                 new_h == int_scaled(image.h, max_dim)
                 resized == [image EXCEPT !.h = new_h, !.w = new_w]
             IN  IF new_w <= 0 \/ new_h <= 0
                   THEN [raises |-> "cv2.error"]
                   ELSE [image |-> resized, gray |-> cvtColor(resized)]
        ELSE [image |-> image, gray |-> cvtColor(image)]

(* total_ms = ... if t_start else 0; the result dict, and the timing    *)
(* keys when performance logging is enabled                           *)
_build_result_budget(valid, reason, details, stage_times, total) ==
  LET result == [valid |-> IF total > 0 THEN FALSE ELSE valid,
                 reason |-> reason,
                 message |-> IF reason \in DOMAIN ERROR_CODES
                               THEN ERROR_CODES[reason]
                               ELSE "Unknown error",
                 details |-> IF details = None THEN EmptyDict ELSE details]
  IN  IF perf_logging
        THEN [inference_time_ms |-> total, stage_times_ms |-> stage_times]
             @@ result
        ELSE result

_build_result(valid, reason, details, stage_times, total) ==
  LET result == [valid |-> valid,
                 reason |-> reason,
                 message |-> IF reason \in DOMAIN ERROR_CODES
                               THEN ERROR_CODES[reason]
                               ELSE "Unknown error",
                 details |-> IF details = None THEN EmptyDict ELSE details]
  IN  IF perf_logging
        THEN [inference_time_ms |-> total, stage_times_ms |-> stage_times]
             @@ result
        ELSE result

(* the locals of a call before it starts *)
IdleCall ==
  [entry |-> "none", pc |-> "IDLE", input |-> None,
   image |-> None, gray |-> None,
   lighting_result |-> None, clarity_result |-> None, face_result |-> None,
   stage_times |-> EmptyDict, result |-> None,
   ran |-> <<>>, detect_calls |-> 0]

(* return _build_result(...) from a call *)
finish(c, valid, reason, details) ==
  [c EXCEPT !.pc = "DONE",
            !.result = _build_result(valid, reason, details, c.stage_times,
                                     total_ms(c.stage_times))]

(* Step 1: load, and the INVALID_IMAGE exit.  t is the elapsed time. *)
verify_load_defensive(c, t) ==
  LET image == IF c.entry = "verify" THEN imread(c.input) ELSE imdecode(c.input)
      c1 == [c EXCEPT !.image = image,
                      !.stage_times = dict_set(@, "load", t),
                      !.ran = Append(@, "load")]
  IN  IF image = None
        THEN finish([c1 EXCEPT !.ran = Append(@, "lighting")],
                    FALSE, INVALID_IMAGE,
                    [lighting |-> check_lighting(None, None)])
        ELSE [c1 EXCEPT !.pc = "PREPROCESSING"]

verify_load_decode_key(c, t) ==
  LET image == IF c.entry = "verify" THEN imread(c.input) ELSE imdecode(c.input)
      c1 == [c EXCEPT !.image = image,
                      !.stage_times = dict_set(@, IF c.entry = "verify"
                                                    THEN "load"
                                                    ELSE "decode", t),
                      !.ran = Append(@, "load")]
  IN  IF image = None
        THEN finish(c1, FALSE, INVALID_IMAGE, None)
        ELSE [c1 EXCEPT !.pc = "PREPROCESSING"]

verify_load(c, t) ==
  LET image == IF c.entry = "verify" THEN imread(c.input) ELSE imdecode(c.input)
      c1 == [c EXCEPT !.image = image,
                      !.stage_times = dict_set(@, "load", t),
                      !.ran = Append(@, "load")]
  IN  IF image = None
        THEN finish(c1, FALSE, INVALID_IMAGE, None)
        ELSE [c1 EXCEPT !.pc = "PREPROCESSING"]

(* Step 2: preprocess *)
verify_preprocess_untimed(c, t) ==
  LET p == _preprocess_image(c.image)
  IN  IF "raises" \in DOMAIN p
        THEN [c EXCEPT !.pc = "RAISED", !.ran = Append(@, "preprocess")]
        ELSE [c EXCEPT !.pc = "LIGHTING",
                       !.image = p.image, !.gray = p.gray,
                       !.ran = Append(@, "preprocess")]

verify_preprocess_keep_original(c, t) ==
  LET p == _preprocess_image(c.image)
  IN  IF "raises" \in DOMAIN p
        THEN [c EXCEPT !.pc = "RAISED", !.ran = Append(@, "preprocess")]
        ELSE [c EXCEPT !.pc = "LIGHTING",
                       !.gray = p.gray,
                       !.stage_times = dict_set(@, "preprocess", t),
                       !.ran = Append(@, "preprocess")]

verify_preprocess(c, t) ==
  LET p == _preprocess_image(c.image)
  IN  IF "raises" \in DOMAIN p
        THEN [c EXCEPT !.pc = "RAISED", !.ran = Append(@, "preprocess")]
        ELSE [c EXCEPT !.pc = "LIGHTING",
                       !.image = p.image, !.gray = p.gray,
                       !.stage_times = dict_set(@, "preprocess", t),
                       !.ran = Append(@, "preprocess")]

(* Step 3: lighting *)
verify_lighting_no_exit(c, t) ==
  LET r == check_lighting(c.image, c.gray)
      c1 == [c EXCEPT !.lighting_result = r,
                      !.stage_times = dict_set(@, "lighting", t),
                      !.ran = Append(@, "lighting")]
  IN  [c1 EXCEPT !.pc = "CLARITY"]

verify_lighting_placeholder(c, t) ==
  LET r == check_lighting(c.image, c.gray)
      c1 == [c EXCEPT !.lighting_result = r,
                      !.stage_times = dict_set(@, "lighting", t),
                      !.ran = Append(@, "lighting")]
  IN  IF r.status # GOOD_LIGHTING
        THEN finish(c1, FALSE, r.status,
                    [lighting |-> r, clarity |-> check_clarity(None, None)])
        ELSE [c1 EXCEPT !.pc = "CLARITY"]

verify_lighting(c, t) ==
  LET r == check_lighting(c.image, c.gray)
      c1 == [c EXCEPT !.lighting_result = r,
                      !.stage_times = dict_set(@, "lighting", t),
                      !.ran = Append(@, "lighting")]
  IN  IF r.status # GOOD_LIGHTING
        THEN finish(c1, FALSE, r.status, [lighting |-> r])
        ELSE [c1 EXCEPT !.pc = "CLARITY"]

(* Step 4: clarity *)
verify_clarity_shared_gray(c, t) ==
  LET others == { i \in DOMAIN calls : calls[i].gray # None }
      gray == IF others = {} THEN c.gray
              ELSE calls[CHOOSE i \in others : TRUE].gray
      r == check_clarity(c.image, gray)
      c1 == [c EXCEPT !.clarity_result = r,
                      !.stage_times = dict_set(@, "clarity", t),
                      !.ran = Append(@, "clarity")]
  IN  IF r.status # CLEAR
        THEN finish(c1, FALSE, r.status,
                    [lighting |-> c.lighting_result, clarity |-> r])
        ELSE [c1 EXCEPT !.pc = "FACE"]

verify_clarity_valid_flag(c, t) ==
  LET r == check_clarity(c.image, c.gray)
      c1 == [c EXCEPT !.clarity_result = r,
                      !.stage_times = dict_set(@, "clarity", t),
                      !.ran = Append(@, "clarity")]
  IN  IF r.status # CLEAR
        THEN finish(c1, TRUE, r.status,
                    [lighting |-> c.lighting_result, clarity |-> r])
        ELSE [c1 EXCEPT !.pc = "FACE"]

verify_clarity(c, t) ==
  LET r == check_clarity(c.image, c.gray)
      c1 == [c EXCEPT !.clarity_result = r,
                      !.stage_times = dict_set(@, "clarity", t),
                      !.ran = Append(@, "clarity")]
  IN  IF r.status # CLEAR
        THEN finish(c1, FALSE, r.status,
                    [lighting |-> c.lighting_result, clarity |-> r])
        ELSE [c1 EXCEPT !.pc = "FACE"]

(* Step 5: face detection, and the final result *)
verify_face_lenient(c, t) ==
  LET f == detect_face(c.image)
      r == f.ret
      c1 == [c EXCEPT !.face_result = r,
                      !.detect_calls = @ + f.detect_calls,
                      !.stage_times = dict_set(@, "face_detection", t),
                      !.ran = Append(@, "face_detection")]
      details == [lighting |-> c.lighting_result,
                  clarity |-> c.clarity_result, face |-> r]
  IN  finish(c1, TRUE, SUCCESS, details)

verify_face_retry(c, t) ==
  LET f0 == detect_face(c.image)
      f == IF f0.ret.status = NO_FACE THEN detect_face(c.image) ELSE f0
      again == IF f0.ret.status = NO_FACE THEN f0.detect_calls ELSE 0
      r == f.ret
      c1 == [c EXCEPT !.face_result = r,
                      !.detect_calls = @ + f.detect_calls + again,
                      !.stage_times = dict_set(@, "face_detection", t),
                      !.ran = Append(@, "face_detection")]
      details == [lighting |-> c.lighting_result,
                  clarity |-> c.clarity_result, face |-> r]
  IN  IF r.status # SUCCESS
        THEN finish(c1, FALSE, r.status, details)
        ELSE finish(c1, TRUE, SUCCESS, details)

verify_face(c, t) ==
  LET f == detect_face(c.image)
      r == f.ret
      c1 == [c EXCEPT !.face_result = r,
                      !.detect_calls = @ + f.detect_calls,
                      !.stage_times = dict_set(@, "face_detection", t),
                      !.ran = Append(@, "face_detection")]
      details == [lighting |-> c.lighting_result,
                  clarity |-> c.clarity_result, face |-> r]
  IN  IF r.status # SUCCESS
        THEN finish(c1, FALSE, r.status, details)
        ELSE finish(c1, TRUE, SUCCESS, details)

(* ------------------------------------------------------------------ *)
(* Actions                                                             *)
(* ------------------------------------------------------------------ *)
IdleUnit ==
  [fn |-> "none", image |-> None, gray |-> None, ret |-> None,
   detect_calls |-> 0]

(* verify_batch before it is called *)
IdleBatch == [pc |-> "IDLE", paths |-> <<>>, results |-> <<>>]

(* no HTTP request is being served *)
IdleHttp ==
  [pc |-> "IDLE", endpoint |-> "none", request |-> None, response |-> None,
   pipeline_calls |-> 0]

(* the concurrent callers: two threads of the process *)
Callers == {"thread_1", "thread_2"}

(* no call is in progress and the last one has returned to its caller *)
CallIdle ==
  /\ call.pc = "IDLE"
  /\ unit.fn = "none"
  /\ batch.pc = "IDLE"
  /\ \A i \in Callers : calls[i].pc = "IDLE"
  /\ http.pc = "IDLE"

(* Before face_detector is imported _detector and _model_ready are     *)
(* unbound; the placeholders are never read in that state.             *)
Init ==
  /\ model_file \in {"present", "missing", "corrupt"}
  /\ proc = "starting"
  /\ _detector = None
  /\ _model_ready = FALSE
  /\ call = IdleCall
  /\ unit = IdleUnit
  /\ perf_logging \in {PERF_LOGGING_ENABLED, ~PERF_LOGGING_ENABLED}
  /\ prev = None
  /\ batch = IdleBatch
  /\ calls = [i \in Callers |-> IdleCall]
  /\ http = IdleHttp

(* import of face_detector: "Load detector at startup" *)
ModuleImport ==
  /\ proc = "starting"
  /\ CallIdle
  /\ LET d == _load_detector
     IN  IF "handle" \in DOMAIN d
           THEN /\ _detector' = d
                /\ _model_ready' = TRUE
                /\ proc' = "running"
         ELSE IF d.raises = "FileNotFoundError"
           THEN /\ _detector' = None
                /\ _model_ready' = FALSE
                /\ proc' = "running"
         ELSE /\ proc' = "import_failed"
              /\ UNCHANGED <<_detector, _model_ready>>
  /\ UNCHANGED <<model_file, call, unit, aux>>

(* a caller enters verify(image_path) or verify_from_bytes(image_bytes) *)
StartVerify ==
  /\ proc = "running"
  /\ CallIdle
  /\ \E entry \in {"verify", "verify_from_bytes"}, input \in Inputs :
       call' = [IdleCall EXCEPT !.entry = entry, !.pc = "LOADING",
                                !.input = input]
  /\ UNCHANGED <<model_file, proc, _detector, _model_ready, unit, aux>>

Load ==
  /\ call.pc = "LOADING"
  /\ \E t \in 0..MaxElapsedMs : call' = verify_load(call, t)
  /\ UNCHANGED <<model_file, proc, _detector, _model_ready, unit, aux>>

Preprocess ==
  /\ call.pc = "PREPROCESSING"
  /\ \E t \in 0..MaxElapsedMs : call' = verify_preprocess(call, t)
  /\ UNCHANGED <<model_file, proc, _detector, _model_ready, unit, aux>>

Lighting ==
  /\ call.pc = "LIGHTING"
  /\ \E t \in 0..MaxElapsedMs : call' = verify_lighting(call, t)
  /\ UNCHANGED <<model_file, proc, _detector, _model_ready, unit, aux>>

Clarity ==
  /\ call.pc = "CLARITY"
  /\ \E t \in 0..MaxElapsedMs : call' = verify_clarity(call, t)
  /\ UNCHANGED <<model_file, proc, _detector, _model_ready, unit, aux>>

Face ==
  /\ call.pc = "FACE"
  /\ \E t \in 0..MaxElapsedMs : call' = verify_face(call, t)
  /\ UNCHANGED <<model_file, proc, _detector, _model_ready, unit, aux>>

(* check_lighting called on its own *)
CallCheckLighting ==
  /\ CallIdle
  /\ \E image \in LightingImages \cup {None}, gray \in GrayBuffers \cup {None} :
       unit' = [fn |-> "check_lighting", image |-> image, gray |-> gray,
                ret |-> check_lighting(image, gray), detect_calls |-> 0]
  /\ UNCHANGED <<model_file, proc, _detector, _model_ready, call, aux>>

(* check_clarity called on its own *)
CallCheckClarity ==
  /\ CallIdle
  /\ \E image \in ClarityImages \cup {None}, gray \in GrayBuffers \cup {None} :
       unit' = [fn |-> "check_clarity", image |-> image, gray |-> gray,
                ret |-> check_clarity(image, gray), detect_calls |-> 0]
  /\ UNCHANGED <<model_file, proc, _detector, _model_ready, call, aux>>

(* detect_face called on its own *)
CallDetectFace ==
  /\ proc = "running"
  /\ CallIdle
  /\ \E image \in FaceImages \cup {None} :
       LET f == detect_face(image)
       IN  unit' = [fn |-> "detect_face", image |-> image, gray |-> None,
                    ret |-> f.ret, detect_calls |-> f.detect_calls]
  /\ UNCHANGED <<model_file, proc, _detector, _model_ready, call, aux>>

(* the call returns (or its exception propagates) to the caller and its *)
(* locals go out of scope                                               *)
Return ==
  /\ call.pc \in {"DONE", "RAISED"} \/ unit.fn # "none"
  /\ call' = IdleCall
  /\ unit' = IdleUnit
  /\ UNCHANGED <<model_file, proc, _detector, _model_ready, aux>>

Next ==
  \/ ModuleImport
  \/ StartVerify
  \/ Load
  \/ Preprocess
  \/ Lighting
  \/ Clarity
  \/ Face
  \/ CallCheckLighting
  \/ CallCheckClarity
  \/ CallDetectFace
  \/ Return

Spec == Init /\ [][Next]_vars

(* ------------------------------------------------------------------ *)
(* The same input verified twice                                       *)
(* ------------------------------------------------------------------ *)
(* inputs a caller verifies a second time *)
RepeatInputs ==
  { [decodes_to |-> i] :
      i \in { MkImage(s, m, v, n) :
                s \in { <<480, 640>>, <<720, 1280>>, <<2000, 1>> },
                m \in { (LIGHTING_MIN - 1) * Scale, 120 * Scale },
                v \in { (BLUR_THRESHOLD - 1) * Scale,
                        (BLUR_THRESHOLD + 1) * Scale },
                n \in 0..2 } \cup {None} }

(* what the caller keeps of a call that has ended *)
Outcome(c) ==
  [entry |-> c.entry, input |-> c.input, pc |-> c.pc,
   core |-> IF c.result = None THEN None
            ELSE [valid |-> c.result.valid, reason |-> c.result.reason,
                  message |-> c.result.message, details |-> c.result.details],
   keys |-> IF c.result = None THEN {} ELSE DOMAIN c.result,
   stage_keys |-> DOMAIN c.stage_times,
   ran |-> c.ran]

(* a caller verifies an input through either entry point *)
FirstCall ==
  /\ proc = "running"
  /\ CallIdle
  /\ prev = None
  /\ \E entry \in {"verify", "verify_from_bytes"}, input \in RepeatInputs :
       call' = [IdleCall EXCEPT !.entry = entry, !.pc = "LOADING",
                                !.input = input]
  /\ UNCHANGED <<model_file, proc, _detector, _model_ready, unit, aux>>

(* the first call has ended; the caller keeps its outcome *)
FirstReturn ==
  /\ call.pc \in {"DONE", "RAISED"}
  /\ prev = None
  /\ prev' = Outcome(call)
  /\ call' = IdleCall
  /\ UNCHANGED <<model_file, proc, _detector, _model_ready, unit,
                 perf_logging, batch, calls, http>>

(* the caller verifies the same input again, through either entry point *)
SecondCall ==
  /\ proc = "running"
  /\ CallIdle
  /\ prev # None
  /\ \E entry \in {"verify", "verify_from_bytes"} :
       call' = [IdleCall EXCEPT !.entry = entry, !.pc = "LOADING",
                                !.input = prev.input]
  /\ UNCHANGED <<model_file, proc, _detector, _model_ready, unit, aux>>

(* the second call has ended; the caller drops both outcomes *)
SecondReturn ==
  /\ call.pc \in {"DONE", "RAISED"}
  /\ prev # None
  /\ prev' = None
  /\ call' = IdleCall
  /\ UNCHANGED <<model_file, proc, _detector, _model_ready, unit,
                 perf_logging, batch, calls, http>>

NextRepeat ==
  \/ ModuleImport
  \/ FirstCall
  \/ Load
  \/ Preprocess
  \/ Lighting
  \/ Clarity
  \/ Face
  \/ FirstReturn
  \/ SecondCall
  \/ SecondReturn

SpecRepeat == Init /\ [][NextRepeat]_vars

(* ------------------------------------------------------------------ *)
(* verify_batch                                                        *)
(* ------------------------------------------------------------------ *)
(* the paths of a batch: one that does not decode, a dark image, a good *)
(* image, a good image that is one pixel wide                           *)
BatchInputs ==
  { [decodes_to |-> None],
    [decodes_to |-> MkImage(<<480, 640>>, 10 * Scale,
                            (BLUR_THRESHOLD + 1) * Scale, 1)],
    [decodes_to |-> MkImage(<<720, 1280>>, 120 * Scale,
                            (BLUR_THRESHOLD + 1) * Scale, 1)],
    [decodes_to |-> MkImage(<<2000, 1>>, 120 * Scale,
                            (BLUR_THRESHOLD + 1) * Scale, 1)] }

(* the lists of at most MaxBatch paths *)
BatchPaths == UNION { [1..n -> BatchInputs] : n \in 0..MaxBatch }

(* verify_batch(image_paths) is entered *)
BatchStart ==
  /\ proc = "running"
  /\ CallIdle
  /\ \E image_paths \in BatchPaths :
       batch' = [pc |-> "RUNNING", paths |-> image_paths, results |-> <<>>]
  /\ UNCHANGED <<model_file, proc, _detector, _model_ready, call, unit,
                 perf_logging, prev, calls, http>>

(* the comprehension calls verify(path) for the next path *)
BatchNext ==
  /\ batch.pc = "RUNNING"
  /\ call.pc = "IDLE"
  /\ Len(batch.results) < Len(batch.paths)
  /\ call' = [IdleCall EXCEPT !.entry = "verify", !.pc = "LOADING",
                              !.input = batch.paths[Len(batch.results) + 1]]
  /\ UNCHANGED <<model_file, proc, _detector, _model_ready, unit, aux>>

(* verify(path) has returned: its result is appended to the list.  Of  *)
(* a result the list keeps valid, reason, message and details.         *)
BatchCollect ==
  /\ batch.pc = "RUNNING"
  /\ call.pc = "DONE"
  /\ batch' = [batch EXCEPT !.results =
                 Append(@, [valid |-> call.result.valid,
                            reason |-> call.result.reason,
                            message |-> call.result.message,
                            details |-> call.result.details])]
  /\ call' = IdleCall
  /\ UNCHANGED <<model_file, proc, _detector, _model_ready, unit,
                 perf_logging, prev, calls, http>>

(* verify(path) has raised: the exception leaves the comprehension and *)
(* verify_batch, and the list built so far is dropped                  *)
BatchRaise ==
  /\ batch.pc = "RUNNING"
  /\ call.pc = "RAISED"
  /\ batch' = [batch EXCEPT !.pc = "RAISED", !.results = <<>>]
  /\ call' = IdleCall
  /\ UNCHANGED <<model_file, proc, _detector, _model_ready, unit,
                 perf_logging, prev, calls, http>>

(* every path has been verified: verify_batch returns the list *)
BatchDone ==
  /\ batch.pc = "RUNNING"
  /\ call.pc = "IDLE"
  /\ Len(batch.results) = Len(batch.paths)
  /\ batch' = [batch EXCEPT !.pc = "DONE"]
  /\ UNCHANGED <<model_file, proc, _detector, _model_ready, call, unit,
                 perf_logging, prev, calls, http>>

(* the caller is done with the list (or with the exception) *)
BatchReturn ==
  /\ batch.pc \in {"DONE", "RAISED"}
  /\ batch' = IdleBatch
  /\ UNCHANGED <<model_file, proc, _detector, _model_ready, call, unit,
                 perf_logging, prev, calls, http>>

NextBatch ==
  \/ ModuleImport
  \/ BatchStart
  \/ BatchNext
  \/ Load
  \/ Preprocess
  \/ Lighting
  \/ Clarity
  \/ Face
  \/ BatchCollect
  \/ BatchRaise
  \/ BatchDone
  \/ BatchReturn

SpecBatch == Init /\ [][NextBatch]_vars

(* ------------------------------------------------------------------ *)
(* Concurrent calls of verify                                          *)
(* ------------------------------------------------------------------ *)
(* the paths the threads verify: one that does not decode, a dark      *)
(* image, a blurry image, a good image                                 *)
ConcInputs ==
  { [decodes_to |-> None],
    [decodes_to |-> MkImage(<<480, 640>>, 10 * Scale,
                            (BLUR_THRESHOLD + 1) * Scale, 1)],
    [decodes_to |-> MkImage(<<640, 640>>, 120 * Scale,
                            (BLUR_THRESHOLD - 1) * Scale, 1)],
    [decodes_to |-> MkImage(<<720, 1280>>, 120 * Scale,
                            (BLUR_THRESHOLD + 1) * Scale, 1)] }

(* a thread enters verify(image_path) *)
ConcStart ==
  /\ proc = "running"
  /\ call.pc = "IDLE"
  /\ unit.fn = "none"
  /\ batch.pc = "IDLE"
  /\ \E i \in Callers, input \in ConcInputs :
       /\ calls[i].pc = "IDLE"
       /\ calls' = [calls EXCEPT ![i] =
                      [IdleCall EXCEPT !.entry = "verify", !.pc = "LOADING",
                                       !.input = input]]
  /\ UNCHANGED <<model_file, proc, _detector, _model_ready, call, unit,
                 perf_logging, prev, batch, http>>

ConcLoad ==
  /\ \E i \in Callers, t \in 0..MaxElapsedMs :
       /\ calls[i].pc = "LOADING"
       /\ calls' = [calls EXCEPT ![i] = verify_load(calls[i], t)]
  /\ UNCHANGED <<model_file, proc, _detector, _model_ready, call, unit,
                 perf_logging, prev, batch, http>>

ConcPreprocess ==
  /\ \E i \in Callers, t \in 0..MaxElapsedMs :
       /\ calls[i].pc = "PREPROCESSING"
       /\ calls' = [calls EXCEPT ![i] = verify_preprocess(calls[i], t)]
  /\ UNCHANGED <<model_file, proc, _detector, _model_ready, call, unit,
                 perf_logging, prev, batch, http>>

ConcLighting ==
  /\ \E i \in Callers, t \in 0..MaxElapsedMs :
       /\ calls[i].pc = "LIGHTING"
       /\ calls' = [calls EXCEPT ![i] = verify_lighting(calls[i], t)]
  /\ UNCHANGED <<model_file, proc, _detector, _model_ready, call, unit,
                 perf_logging, prev, batch, http>>

ConcClarity ==
  /\ \E i \in Callers, t \in 0..MaxElapsedMs :
       /\ calls[i].pc = "CLARITY"
       /\ calls' = [calls EXCEPT ![i] = verify_clarity(calls[i], t)]
  /\ UNCHANGED <<model_file, proc, _detector, _model_ready, call, unit,
                 perf_logging, prev, batch, http>>

ConcFace ==
  /\ \E i \in Callers, t \in 0..MaxElapsedMs :
       /\ calls[i].pc = "FACE"
       /\ calls' = [calls EXCEPT ![i] = verify_face(calls[i], t)]
  /\ UNCHANGED <<model_file, proc, _detector, _model_ready, call, unit,
                 perf_logging, prev, batch, http>>

(* the call of a thread returns and its locals go out of scope *)
ConcReturn ==
  /\ \E i \in Callers :
       /\ calls[i].pc \in {"DONE", "RAISED"}
       /\ calls' = [calls EXCEPT ![i] = IdleCall]
  /\ UNCHANGED <<model_file, proc, _detector, _model_ready, call, unit,
                 perf_logging, prev, batch, http>>

NextConc ==
  \/ ModuleImport
  \/ ConcStart
  \/ ConcLoad
  \/ ConcPreprocess
  \/ ConcLighting
  \/ ConcClarity
  \/ ConcFace
  \/ ConcReturn

SpecConc == Init /\ [][NextConc]_vars

(* ------------------------------------------------------------------ *)
(* REST API (src/app.py)                                               *)
(* ------------------------------------------------------------------ *)
API_VERSION == "1.0.0"
MAX_FILE_SIZE == 10 * 1024 * 1024
ALLOWED_CONTENT_TYPES == { "image/jpeg", "image/png", "image/jpg" }
ALLOWED_EXTENSIONS == { ".jpg", ".jpeg", ".png" }

(* file names of the uploads; "" stands for an upload without one *)
Filenames == { "photo.jpg", "PHOTO.PNG", "notes.txt", "photo", "" }

(* os.path.splitext(filename)[1].lower() *)
splitext_lower(filename) ==
  CASE filename = "photo.jpg" -> ".jpg"
    [] filename = "PHOTO.PNG" -> ".png"
    [] filename = "notes.txt" -> ".txt"
    [] OTHER -> ""

(* decoded content of the uploads *)
ApiImages ==
  { MkImage(<<480, 640>>, 10 * Scale, (BLUR_THRESHOLD + 1) * Scale, 1),
    MkImage(<<640, 640>>, 120 * Scale, (BLUR_THRESHOLD - 1) * Scale, 1),
    MkImage(<<720, 1280>>, 120 * Scale, (BLUR_THRESHOLD + 1) * Scale, 1),
    MkImage(<<720, 1280>>, 120 * Scale, (BLUR_THRESHOLD + 1) * Scale, 2),
    MkImage(<<2000, 1>>, 120 * Scale, (BLUR_THRESHOLD + 1) * Scale, 1) }

(* the bytes of an upload: their number, and what the decoder makes of *)
(* them; no bytes decode to nothing                                    *)
Uploads ==
  { [size |-> n, decodes_to |-> i] :
      n \in { 1, MAX_FILE_SIZE, MAX_FILE_SIZE + 1 },
      i \in ApiImages \cup {None} }
  \cup { [size |-> 0, decodes_to |-> None] }

(* POST /verify requests: the multipart file, the verbose query        *)
(* parameter and the X-Verbose header; the content type "" is that of  *)
(* a part sent without one                                             *)
Requests ==
  { [filename |-> f, content_type |-> t, contents |-> b,
     verbose |-> v, x_verbose |-> x] :
      f \in Filenames,
      t \in { "", "image/jpeg", "text/plain" },
      b \in Uploads,
      v \in BOOLEAN,
      x \in { "", "yes" } }

(* JSONResponse(status_code, content) with an error body *)
error_response(status_code, code, message) ==
  [status_code |-> status_code,
   content |-> [success |-> FALSE,
                error |-> [code |-> code, message |-> message]]]

(* verify_image, steps 1 to 3: the error response of the first request *)
(* check that fails, or None                                           *)
validate_request_size_first(request) ==
  LET ext == splitext_lower(request.filename)
  IN  IF request.contents.size > MAX_FILE_SIZE
        THEN error_response(413, "FILE_TOO_LARGE",
                            "File size exceeds the maximum allowed size.")
      ELSE IF request.contents.size = 0
        THEN error_response(400, "EMPTY_FILE", "The uploaded file is empty.")
      ELSE IF ext \notin ALLOWED_EXTENSIONS
        THEN error_response(400, "INVALID_FILE_TYPE",
                            "File type is not supported.")
      ELSE IF request.content_type # ""
              /\ request.content_type \notin ALLOWED_CONTENT_TYPES
        THEN error_response(400, "INVALID_FILE_TYPE",
                            "Content type is not supported.")
      ELSE None

validate_request(request) ==
  LET ext == splitext_lower(request.filename)
  IN  IF ext \notin ALLOWED_EXTENSIONS
        THEN error_response(400, "INVALID_FILE_TYPE",
                            "File type is not supported.")
      ELSE IF request.content_type # ""
              /\ request.content_type \notin ALLOWED_CONTENT_TYPES
        THEN error_response(400, "INVALID_FILE_TYPE",
                            "Content type is not supported.")
      ELSE IF request.contents.size > MAX_FILE_SIZE
        THEN error_response(413, "FILE_TOO_LARGE",
                            "File size exceeds the maximum allowed size.")
      ELSE IF request.contents.size = 0
        THEN error_response(400, "EMPTY_FILE", "The uploaded file is empty.")
      ELSE None

(* verbose, from the query parameter or the X-Verbose header *)
is_verbose(request) ==
  request.verbose \/ request.x_verbose \in { "true", "1", "yes" }

(* verify_image, step 4: the response to the outcome c of              *)
(* verify_from_bytes; an exception is answered by the except branch    *)
build_response_gate_error(c, verbose) ==
  IF c.pc = "RAISED" \/ ~c.result.valid
    THEN error_response(500, "INTERNAL_ERROR", "An unexpected error occurred")
  ELSE IF verbose
    THEN [status_code |-> 200,
          content |-> [success |-> TRUE,
                       result |-> c.result,
                       inference_time_ms |->
                         IF "inference_time_ms" \in DOMAIN c.result
                           THEN c.result.inference_time_ms ELSE None,
                       timestamp |-> "now"]]
  ELSE [status_code |-> 200,
        content |-> [success |-> TRUE,
                     valid |-> c.result.valid,
                     reason |-> c.result.reason,
                     message |-> c.result.message]]

build_response(c, verbose) ==
  IF c.pc = "RAISED"
    THEN error_response(500, "INTERNAL_ERROR", "An unexpected error occurred")
  ELSE IF verbose
    THEN [status_code |-> 200,
          content |-> [success |-> TRUE,
                       result |-> c.result,
                       inference_time_ms |->
                         IF "inference_time_ms" \in DOMAIN c.result
                           THEN c.result.inference_time_ms ELSE None,
                       timestamp |-> "now"]]
  ELSE [status_code |-> 200,
        content |-> [success |-> TRUE,
                     valid |-> c.result.valid,
                     reason |-> c.result.reason,
                     message |-> c.result.message]]

(* health_check() *)
health_check_always_healthy ==
  LET model_loaded == _model_ready
  IN  [status |-> "healthy",
       model_loaded |-> model_loaded,
       version |-> API_VERSION]

health_check ==
  LET model_loaded == _model_ready
  IN  [status |-> IF model_loaded THEN "healthy" ELSE "degraded",
       model_loaded |-> model_loaded,
       version |-> API_VERSION]

(* POST /verify arrives: the request checks, and for a request that    *)
(* passes them the entry into verify_from_bytes(contents)              *)
PostVerify ==
  /\ proc = "running"
  /\ CallIdle
  /\ \E request \in Requests :
       LET e == validate_request(request)
       IN  IF e # None
             THEN /\ http' = [pc |-> "RESPONDED", endpoint |-> "verify",
                              request |-> request, response |-> e,
                              pipeline_calls |-> 0]
                  /\ call' = call
             ELSE /\ http' = [pc |-> "PIPELINE", endpoint |-> "verify",
                              request |-> request, response |-> None,
                              pipeline_calls |-> 1]
                  /\ call' = [IdleCall EXCEPT !.entry = "verify_from_bytes",
                                              !.pc = "LOADING",
                                              !.input = request.contents]
  /\ UNCHANGED <<model_file, proc, _detector, _model_ready, unit,
                 perf_logging, prev, batch, calls>>

(* verify_from_bytes has returned or raised: the response is built *)
PostRespond ==
  /\ http.pc = "PIPELINE"
  /\ call.pc \in {"DONE", "RAISED"}
  /\ http' = [http EXCEPT !.pc = "RESPONDED",
                          !.response =
                            build_response(call, is_verbose(http.request))]
  /\ UNCHANGED <<model_file, proc, _detector, _model_ready, call, unit,
                 perf_logging, prev, batch, calls>>

(* GET /health *)
GetHealth ==
  /\ proc = "running"
  /\ CallIdle
  /\ http' = [pc |-> "RESPONDED", endpoint |-> "health", request |-> None,
              response |-> [status_code |-> 200, content |-> health_check],
              pipeline_calls |-> 0]
  /\ UNCHANGED <<model_file, proc, _detector, _model_ready, call, unit,
                 perf_logging, prev, batch, calls>>

(* the response is sent and the handler's locals go out of scope *)
HttpReturn ==
  /\ http.pc = "RESPONDED"
  /\ http' = IdleHttp
  /\ call' = IdleCall
  /\ UNCHANGED <<model_file, proc, _detector, _model_ready, unit,
                 perf_logging, prev, batch, calls>>

NextApi ==
  \/ ModuleImport
  \/ PostVerify
  \/ Load
  \/ Preprocess
  \/ Lighting
  \/ Clarity
  \/ Face
  \/ PostRespond
  \/ GetHealth
  \/ HttpReturn

SpecApi == Init /\ [][NextApi]_vars

(* ------------------------------------------------------------------ *)
(* Properties                                                          *)
(* ------------------------------------------------------------------ *)
StageOrder == <<"lighting", "clarity", "face">>
StageStep == <<"lighting", "clarity", "face_detection">>
StagePass == [lighting |-> GOOD_LIGHTING, clarity |-> CLEAR, face |-> SUCCESS]

(* the verification call has returned a result *)
Returned == call.pc = "DONE"
(* ... and its load step yielded an image *)
ReturnedDecoded == Returned /\ call.image # None

DarkMean(m) == m < LIGHTING_MIN * Scale
BrightMean(m) == m > LIGHTING_MAX * Scale
BlurryVariance(v) == v < BLUR_THRESHOLD * Scale

(* C1: a call on a decodable image that returns valid=false stopped at  *)
(* the first stage, in the order lighting, clarity, face, whose status  *)
(* is not its pass status: reason is that stage's status, details holds *)
(* exactly the stages up to and including it, the earlier ones with     *)
(* their pass status, and exactly those evaluators ran.                 *)
C1_ShortCircuit ==
  (ReturnedDecoded /\ ~call.result.valid) =>
    \E n \in 1..3 :
      LET details == call.result.details
      IN  /\ DOMAIN details = { StageOrder[i] : i \in 1..n }
          /\ details[StageOrder[n]].status # StagePass[StageOrder[n]]
          /\ call.result.reason = details[StageOrder[n]].status
          /\ \A i \in 1..(n - 1) :
               details[StageOrder[i]].status = StagePass[StageOrder[i]]
          /\ call.ran = <<"load", "preprocess">> \o SubSeq(StageStep, 1, n)

(* C1 witness: a call stopped at the clarity stage *)
C1_Witness ==
  /\ ReturnedDecoded
  /\ call.result.reason = TOO_BLURRY
  /\ DOMAIN call.result.details = {"lighting", "clarity"}
  /\ call.ran = <<"load", "preprocess", "lighting", "clarity">>

(* C2: when the mean intensity of the decoded image is outside the      *)
(* lighting bounds, the reason is the lighting failure code, whatever   *)
(* the variance, the face count and the model readiness are.            *)
C2_LightingFirst ==
  (ReturnedDecoded /\ (DarkMean(call.image.mean) \/ BrightMean(call.image.mean)))
    => call.result.reason =
         (IF DarkMean(call.image.mean) THEN TOO_DARK ELSE TOO_BRIGHT)

(* C2 witness: dark and blurry, model not ready, reported as TOO_DARK *)
C2_Witness ==
  /\ ReturnedDecoded
  /\ DarkMean(call.image.mean)
  /\ BlurryVariance(call.image.variance)
  /\ ~_model_ready
  /\ call.result.reason = TOO_DARK

(* C3: a returned result has valid=true exactly when the image decoded, *)
(* its mean is within the lighting bounds, its variance is not below    *)
(* the blur threshold, the model is ready and the backend found one     *)
(* face; then reason is SUCCESS and details has all three stages.       *)
C3_ValidIffAllPass ==
  Returned =>
    /\ call.result.valid <=>
         /\ call.image # None
         /\ ~DarkMean(call.image.mean)
         /\ ~BrightMean(call.image.mean)
         /\ ~BlurryVariance(call.image.variance)
         /\ _model_ready
         /\ call.image.faces = 1
    /\ call.result.valid =>
         /\ call.result.reason = SUCCESS
         /\ DOMAIN call.result.details = {"lighting", "clarity", "face"}
         /\ \A k \in DOMAIN call.result.details :
              call.result.details[k].status = StagePass[k]

(* C3 witness: a call of verify_from_bytes returned valid=true *)
C3_Witness ==
  /\ Returned
  /\ call.entry = "verify_from_bytes"
  /\ call.result.valid
  /\ call.result.details["face"].face_count = 1

(* C4: when the load step yields no image the call returns valid=false, *)
(* INVALID_IMAGE, empty details, and only the load step has run.        *)
C4_InvalidImage ==
  (Returned /\ call.input.decodes_to = None) =>
    /\ call.result.valid = FALSE
    /\ call.result.reason = INVALID_IMAGE
    /\ DOMAIN call.result.details = {}
    /\ call.ran = <<"load">>
    /\ call.detect_calls = 0
    /\ call.gray = None

(* C4 witness: verify on a path that does not decode *)
C4_Witness ==
  /\ Returned
  /\ call.entry = "verify"
  /\ call.input.decodes_to = None
  /\ call.result.reason = INVALID_IMAGE

(* the grayscale buffer an evaluator called on its own works on *)
UnitGray == IF unit.gray = None THEN cvtColor(unit.image) ELSE unit.gray

(* the status the lighting bounds give to mean intensity m *)
LightingClass(m) ==
  IF m < LIGHTING_MIN * Scale THEN TOO_DARK
  ELSE IF m <= LIGHTING_MAX * Scale THEN GOOD_LIGHTING
  ELSE TOO_BRIGHT

(* C5: check_lighting on a non-null image classifies the mean intensity *)
(* m with inclusive bounds: TOO_DARK below LIGHTING_MIN, TOO_BRIGHT     *)
(* above LIGHTING_MAX, GOOD_LIGHTING from LIGHTING_MIN to LIGHTING_MAX  *)
(* included; alone and inside the pipeline.                             *)
C5_LightingBounds ==
  /\ (unit.fn = "check_lighting" /\ unit.image # None) =>
       LET m == UnitGray.mean
       IN  /\ unit.ret.status = LightingClass(m)
           /\ m = LIGHTING_MIN * Scale => unit.ret.status = GOOD_LIGHTING
           /\ m = LIGHTING_MAX * Scale => unit.ret.status = GOOD_LIGHTING
           /\ m = (LIGHTING_MIN - 1) * Scale => unit.ret.status = TOO_DARK
           /\ m = (LIGHTING_MAX + 1) * Scale => unit.ret.status = TOO_BRIGHT
  /\ call.lighting_result # None =>
       call.lighting_result.status = LightingClass(call.gray.mean)

(* C5 witness: a mean exactly at LIGHTING_MIN is GOOD_LIGHTING *)
C5_Witness ==
  /\ unit.fn = "check_lighting"
  /\ unit.image # None
  /\ unit.gray = None
  /\ unit.image.mean = LIGHTING_MIN * Scale
  /\ unit.ret.status = GOOD_LIGHTING

(* C6: check_clarity on a non-null image gives TOO_BLURRY for a         *)
(* variance below BLUR_THRESHOLD and CLEAR from BLUR_THRESHOLD on; the  *)
(* threshold field is BLUR_THRESHOLD.                                   *)
C6_ClarityThreshold ==
  /\ (unit.fn = "check_clarity" /\ unit.image # None) =>
       LET v == UnitGray.variance
       IN  /\ v < BLUR_THRESHOLD * Scale => unit.ret.status = TOO_BLURRY
           /\ v >= BLUR_THRESHOLD * Scale => unit.ret.status = CLEAR
           /\ unit.ret.threshold = BLUR_THRESHOLD
  /\ unit.fn = "check_clarity" => unit.ret.threshold = BLUR_THRESHOLD
  /\ call.clarity_result # None =>
       /\ call.clarity_result.status =
            (IF call.gray.variance < BLUR_THRESHOLD * Scale
               THEN TOO_BLURRY ELSE CLEAR)
       /\ call.clarity_result.threshold = BLUR_THRESHOLD

(* C6 witness: a variance exactly at BLUR_THRESHOLD is CLEAR *)
C6_Witness ==
  /\ unit.fn = "check_clarity"
  /\ unit.image # None
  /\ unit.gray = None
  /\ unit.image.variance = BLUR_THRESHOLD * Scale
  /\ unit.ret.status = CLEAR

(* the status and count detect_face owes to n detections *)
FaceClass(n) ==
  IF n = 0 THEN [status |-> NO_FACE, face_count |-> 0]
  ELSE IF n = 1 THEN [status |-> SUCCESS, face_count |-> 1]
  ELSE [status |-> MULTIPLE_FACES, face_count |-> n]

(* C7: with the model ready and a non-null image, detect_face maps the  *)
(* number n of detections to NO_FACE (0), SUCCESS (1) or MULTIPLE_FACES *)
(* with face_count n (n >= 2), after one invocation of the backend.     *)
C7_FaceCount ==
  /\ (unit.fn = "detect_face" /\ _model_ready /\ unit.image # None) =>
       /\ unit.ret.status = FaceClass(unit.image.faces).status
       /\ unit.ret.face_count = FaceClass(unit.image.faces).face_count
       /\ unit.detect_calls = 1
  /\ (call.face_result # None /\ _model_ready) =>
       /\ call.face_result.status = FaceClass(call.image.faces).status
       /\ call.face_result.face_count = FaceClass(call.image.faces).face_count

(* C7 witness: five detections give MULTIPLE_FACES with face_count 5 *)
C7_Witness ==
  /\ unit.fn = "detect_face"
  /\ _model_ready
  /\ unit.image # None
  /\ unit.image.faces = 5
  /\ unit.ret.status = MULTIPLE_FACES
  /\ unit.ret.face_count = 5

(* the backend failed to initialize and the process runs without it *)
NotReady == proc = "running" /\ ~_model_ready

(* C8: when the backend failed to initialize, detect_face returns       *)
(* MODEL_NOT_FOUND with face_count 0 for every argument, a null image   *)
(* included, and never invokes the backend.                             *)
C8_ModelNotFound ==
  /\ (NotReady /\ unit.fn = "detect_face") =>
       /\ unit.ret.status = MODEL_NOT_FOUND
       /\ unit.ret.face_count = 0
       /\ unit.detect_calls = 0
  /\ (NotReady /\ call.face_result # None) =>
       /\ call.face_result.status = MODEL_NOT_FOUND
       /\ call.face_result.face_count = 0
       /\ call.detect_calls = 0

(* C8 witness: detect_face(None) without a model *)
C8_Witness ==
  /\ NotReady
  /\ unit.fn = "detect_face"
  /\ unit.image = None
  /\ unit.ret.status = MODEL_NOT_FOUND

(* C9 as claimed: once the backend failed to initialize, every result   *)
(* of verify / verify_from_bytes has reason MODEL_NOT_FOUND.            *)
C9_Original ==
  (NotReady /\ Returned) =>
    /\ call.result.reason = MODEL_NOT_FOUND
    /\ call.detect_calls = 0

(* C9 amended: once the backend failed to initialize, no verification   *)
(* call attempts inference or returns valid=true; the calls that reach  *)
(* the face stage (image decoded, lighting and clarity passed) report   *)
(* MODEL_NOT_FOUND, and the others report the earlier failure           *)
(* (INVALID_IMAGE, TOO_DARK, TOO_BRIGHT or TOO_BLURRY).                 *)
C9_NotReadyCalls ==
  (NotReady /\ Returned) =>
    /\ call.detect_calls = 0
    /\ call.result.valid = FALSE
    /\ call.result.reason =
         (IF call.image = None THEN INVALID_IMAGE
          ELSE IF DarkMean(call.image.mean) THEN TOO_DARK
          ELSE IF BrightMean(call.image.mean) THEN TOO_BRIGHT
          ELSE IF BlurryVariance(call.image.variance) THEN TOO_BLURRY
          ELSE MODEL_NOT_FOUND)

(* C9 witness: a well lit, sharp image with one face, no model *)
C9_Witness ==
  /\ NotReady
  /\ Returned
  /\ call.image # None
  /\ call.image.faces = 1
  /\ call.result.reason = MODEL_NOT_FOUND
  /\ "face_detection" \in DOMAIN call.stage_times

(* C10: every failure of backend initialization, a missing model file   *)
(* as well as any other error, leaves the process running and not       *)
(* ready; it never surfaces as an exception of the import.              *)
C10_InitFailureIsNotReady ==
  (proc # "starting" /\ model_file # "present") => NotReady

(* C11: check_lighting(None) and check_clarity(None) return            *)
(* INVALID_IMAGE with a zero statistic and the configured thresholds,   *)
(* whether or not a grayscale buffer is passed along.                   *)
C11_NullImage ==
  /\ (unit.fn = "check_lighting" /\ unit.image = None) =>
       /\ unit.ret.status = INVALID_IMAGE
       /\ unit.ret.mean_intensity = 0
       /\ unit.ret.min_threshold = LIGHTING_MIN
       /\ unit.ret.max_threshold = LIGHTING_MAX
  /\ (unit.fn = "check_clarity" /\ unit.image = None) =>
       /\ unit.ret.status = INVALID_IMAGE
       /\ unit.ret.variance = 0
       /\ unit.ret.threshold = BLUR_THRESHOLD

(* C11 witness: check_lighting(None, gray) with a grayscale buffer *)
C11_Witness ==
  /\ unit.fn = "check_lighting"
  /\ unit.image = None
  /\ unit.gray # None
  /\ unit.ret.status = INVALID_IMAGE

(* C12 as claimed: detect_face(None) returns INVALID_IMAGE with         *)
(* face_count 0.                                                        *)
C12_Original ==
  (unit.fn = "detect_face" /\ unit.image = None) =>
    /\ unit.ret.status = INVALID_IMAGE
    /\ unit.ret.face_count = 0

(* C12 amended: with the model ready, detect_face(None) returns         *)
(* INVALID_IMAGE with face_count 0 without invoking the backend; with   *)
(* the model not ready it returns MODEL_NOT_FOUND with face_count 0.    *)
C12_NullImageFace ==
  (unit.fn = "detect_face" /\ unit.image = None) =>
    /\ unit.ret.status = (IF _model_ready THEN INVALID_IMAGE ELSE MODEL_NOT_FOUND)
    /\ unit.ret.face_count = 0
    /\ unit.detect_calls = 0

(* C12 witness: detect_face(None) with the model ready *)
C12_Witness ==
  /\ unit.fn = "detect_face"
  /\ unit.image = None
  /\ _model_ready
  /\ unit.ret.status = INVALID_IMAGE

(* the shape of the image the decoder produced for the call *)
DecodedH == call.input.decodes_to.h
DecodedW == call.input.decodes_to.w
Longer(h, w) == IF h >= w THEN h ELSE w
Shorter(h, w) == IF h >= w THEN w ELSE h

(* C13: after preprocessing the longer side of the image is             *)
(* min(max(h, w), MAX_IMAGE_DIMENSION): exactly MAX_IMAGE_DIMENSION     *)
(* when the decoded image exceeds it, with the shorter side scaled by   *)
(* the same factor within one pixel; height and width are unchanged     *)
(* otherwise.                                                           *)
C13_ResizeExact ==
  call.gray # None =>
    IF Longer(DecodedH, DecodedW) > MAX_IMAGE_DIMENSION
      THEN /\ Longer(call.image.h, call.image.w) = MAX_IMAGE_DIMENSION
           /\ (call.image.h >= call.image.w) = (DecodedH >= DecodedW)
           /\ LET short == Shorter(call.image.h, call.image.w)
                  scaled == Shorter(DecodedH, DecodedW) * MAX_IMAGE_DIMENSION
                  long == Longer(DecodedH, DecodedW)
              IN  /\ (short - 1) * long <= scaled
                  /\ scaled <= (short + 1) * long
      ELSE /\ call.image.h = DecodedH
           /\ call.image.w = DecodedW

(* ------------------------------------------------------------------ *)
(* C17 - timing and the performance flag                               *)
(* ------------------------------------------------------------------ *)
(* valid, reason, message and details of a result *)
Core(r) ==
  [valid |-> r.valid, reason |-> r.reason, message |-> r.message,
   details |-> r.details]

(* What verify returns for the image its load step yielded, written as *)
(* a function of that image (preprocessed, with its grayscale) and of  *)
(* the model readiness only: no duration and no flag enters it.        *)
Verdict(image, gray) ==
  IF image = None
    THEN [valid |-> FALSE, reason |-> INVALID_IMAGE,
          message |-> ERROR_CODES[INVALID_IMAGE], details |-> EmptyDict]
  ELSE LET l == check_lighting(image, gray)
           c == check_clarity(image, gray)
           f == detect_face(image).ret
       IN  IF l.status # GOOD_LIGHTING
             THEN [valid |-> FALSE, reason |-> l.status,
                   message |-> ERROR_CODES[l.status],
                   details |-> [lighting |-> l]]
           ELSE IF c.status # CLEAR
             THEN [valid |-> FALSE, reason |-> c.status,
                   message |-> ERROR_CODES[c.status],
                   details |-> [lighting |-> l, clarity |-> c]]
           ELSE [valid |-> f.status = SUCCESS, reason |-> f.status,
                 message |-> ERROR_CODES[f.status],
                 details |-> [lighting |-> l, clarity |-> c, face |-> f]]

(* C17: the valid, reason, message and details of every returned result *)
(* are the ones the image and the model readiness determine, whatever   *)
(* durations were measured and whatever PERF_LOGGING_ENABLED is; the    *)
(* keys inference_time_ms and stage_times_ms are in the result exactly  *)
(* when PERF_LOGGING_ENABLED is true.                                   *)
C17_TimingNeutral ==
  Returned =>
    /\ Core(call.result) = Verdict(call.image, call.gray)
    /\ ("inference_time_ms" \in DOMAIN call.result) <=> perf_logging
    /\ ("stage_times_ms" \in DOMAIN call.result) <=> perf_logging

(* a valid result of a call that measured nonzero durations, with the *)
(* performance flag off                                                *)
C17_Witness ==
  /\ Returned
  /\ ~perf_logging
  /\ call.result.valid
  /\ total_ms(call.stage_times) > 0
  /\ DOMAIN call.result = {"valid", "reason", "message", "details"}

(* ------------------------------------------------------------------ *)
(* C18, C19 - errors raised inside a step; termination                 *)
(* ------------------------------------------------------------------ *)
(* the call has ended: it returned, or an exception left it *)
Terminal == call.pc \in {"DONE", "RAISED"}

(* C18: a call in which a step raised an error (pc RAISED marks it)    *)
(* carries a result whose reason is none of the domain codes: the      *)
(* error was caught and did not leave the call as an exception.        *)
C18_ErrorsCaught ==
  call.pc = "RAISED" =>
    /\ call.result # None
    /\ call.result.reason \notin DOMAIN ERROR_CODES

(* the steps of a call, in program order *)
StepOrder == <<"load", "preprocess", "lighting", "clarity", "face_detection">>

(* C19: a call only moves forward through the stages, never revisiting *)
(* or skipping one, and when it has ended it is in DONE with a result  *)
(* that has the fields valid, reason, message and details.             *)
C19_AlwaysResult ==
  /\ Len(call.ran) <= Len(StepOrder)
  /\ \A i \in 1..Len(call.ran) : call.ran[i] = StepOrder[i]
  /\ Terminal =>
        /\ call.pc = "DONE"
        /\ {"valid", "reason", "message", "details"}
              \subseteq DOMAIN call.result

(* ------------------------------------------------------------------ *)
(* C14, C16 - the same input verified twice                            *)
(* ------------------------------------------------------------------ *)
(* the second call on the input of prev has ended *)
SecondEnded == prev # None /\ Terminal

(* C14: verify and verify_from_bytes on inputs whose loads yield the   *)
(* same decoded image (or both none) run the same steps and return the *)
(* same valid, reason, message and details, with the same keys in the  *)
(* result and in stage_times_ms.                                       *)
C14_EntryEquivalence ==
  (SecondEnded /\ call.entry # prev.entry) =>
    /\ call.ran = prev.ran
    /\ call.pc = prev.pc
    /\ call.pc = "DONE" =>
          /\ Core(call.result) = prev.core
          /\ DOMAIN call.result = prev.keys
          /\ DOMAIN call.stage_times = prev.stage_keys
          /\ perf_logging => DOMAIN call.result.stage_times_ms = prev.stage_keys

(* verify_from_bytes has returned SUCCESS for the decoded image for     *)
(* which verify returned before it, with different durations            *)
C14_Witness ==
  /\ SecondEnded
  /\ prev.entry = "verify"
  /\ call.entry = "verify_from_bytes"
  /\ call.pc = "DONE"
  /\ call.result.reason = SUCCESS
  /\ prev.core.reason = SUCCESS
  /\ perf_logging
  /\ call.result.inference_time_ms > 0

(* C16: two calls of verify on the same decoded image, under the same  *)
(* configuration and model readiness, return the same valid and the    *)
(* same reason: the first call leaves nothing behind that changes the  *)
(* second.                                                             *)
C16_Deterministic ==
  (SecondEnded /\ call.entry = "verify" /\ prev.entry = "verify") =>
    /\ call.pc = prev.pc
    /\ call.pc = "DONE" =>
          /\ call.result.valid = prev.core.valid
          /\ call.result.reason = prev.core.reason

(* verify has returned valid twice for the same image *)
C16_Witness ==
  /\ SecondEnded
  /\ call.entry = "verify"
  /\ prev.entry = "verify"
  /\ call.pc = "DONE"
  /\ call.result.valid
  /\ prev.core.valid
  /\ call.input = prev.input

(* ------------------------------------------------------------------ *)
(* C15 - verify_batch                                                  *)
(* ------------------------------------------------------------------ *)
(* verify(path) called alone returns a result *)
AloneReturns(path) ==
  LET image == imread(path)
  IN  image = None \/ "raises" \notin DOMAIN _preprocess_image(image)

(* valid, reason, message and details of verify(path) called alone *)
Alone(path) ==
  LET image == imread(path)
  IN  IF image = None THEN Verdict(None, None)
      ELSE LET p == _preprocess_image(image)
           IN  Verdict(p.image, p.gray)

(* C15: when verify_batch(paths) has ended, it has returned a list as   *)
(* long as paths, and for every path for which verify alone returns a   *)
(* result the element at its position has that valid, reason, message   *)
(* and details, whatever happened for the other paths.                  *)
C15_BatchElementwise ==
  batch.pc \in {"DONE", "RAISED"} =>
    \A i \in 1..Len(batch.paths) :
      AloneReturns(batch.paths[i]) =>
        /\ batch.pc = "DONE"
        /\ Len(batch.results) = Len(batch.paths)
        /\ batch.results[i] = Alone(batch.paths[i])

(* ------------------------------------------------------------------ *)
(* C20 - concurrent calls                                              *)
(* ------------------------------------------------------------------ *)
(* every call that has returned carries the valid, reason and details  *)
(* that verify returns for its input when called alone                 *)
SameAsAlone ==
  \A i \in Callers :
    calls[i].pc = "DONE" =>
      /\ calls[i].result.valid = Alone(calls[i].input).valid
      /\ calls[i].result.reason = Alone(calls[i].input).reason
      /\ calls[i].result.details = Alone(calls[i].input).details

(* once the process runs, no step writes the model handle, the         *)
(* readiness flag or the configuration                                 *)
ReadOnlyAfterStart ==
  proc = "running" => UNCHANGED <<_detector, _model_ready, perf_logging>>

(* C20: in every interleaving of concurrent calls of verify each call   *)
(* returns the valid, reason and details it returns when run alone, and *)
(* the model handle, the readiness flag and the configuration are never *)
(* written after process start.                                         *)
C20_ConcurrentIsolation ==
  /\ []SameAsAlone
  /\ [][ReadOnlyAfterStart]_vars

(* one thread has returned valid while the other, verifying a blurry   *)
(* image, has preprocessed it and is about to check its clarity        *)
C20_Witness ==
  \E i, j \in Callers :
    /\ i # j
    /\ calls[i].pc = "DONE"
    /\ calls[i].result.valid
    /\ calls[j].pc = "CLARITY"
    /\ calls[j].gray # None
    /\ calls[j].gray.variance < BLUR_THRESHOLD * Scale

(* ------------------------------------------------------------------ *)
(* C21, C28 - reason, message, valid and details of a result           *)
(* ------------------------------------------------------------------ *)
(* C21: the reason of every returned result is one of the eight codes  *)
(* (never the pass status of an inner stage), and its message is the   *)
(* ERROR_CODES text of that reason, never the fallback.                *)
C21_ReasonCodes ==
  Returned =>
    /\ call.result.reason \in
         { "SUCCESS", "INVALID_IMAGE", "TOO_DARK", "TOO_BRIGHT",
           "TOO_BLURRY", "NO_FACE", "MULTIPLE_FACES", "MODEL_NOT_FOUND" }
    /\ call.result.reason \notin { "GOOD_LIGHTING", "CLEAR" }
    /\ call.result.reason \in DOMAIN ERROR_CODES
    /\ call.result.message = ERROR_CODES[call.result.reason]
    /\ call.result.message # "Unknown error"

(* a call stopped at the face stage because the model is missing *)
C21_Witness ==
  /\ Returned
  /\ call.result.reason = "MODEL_NOT_FOUND"
  /\ call.result.message = "Face detection model file is missing."

(* C28: in every returned result valid is true exactly when reason is  *)
(* SUCCESS, and details is empty exactly when reason is INVALID_IMAGE. *)
C28_ValidIffSuccess ==
  Returned =>
    /\ call.result.valid <=> (call.result.reason = "SUCCESS")
    /\ (DOMAIN call.result.details = {}) <=>
         (call.result.reason = "INVALID_IMAGE")

(* a blurry image: valid is false, reason a failure code, details not  *)
(* empty                                                               *)
C28_Witness ==
  /\ Returned
  /\ ~call.result.valid
  /\ call.result.reason = "TOO_BLURRY"
  /\ DOMAIN call.result.details # {}

(* ------------------------------------------------------------------ *)
(* C25 - evaluators and the backend run at most once                   *)
(* ------------------------------------------------------------------ *)
(* number of times step ran in the call *)
TimesRan(step) ==
  Cardinality({ i \in 1..Len(call.ran) : call.ran[i] = step })

(* C25: in a call the backend is invoked at most once, and only after  *)
(* the lighting check of that call returned GOOD_LIGHTING and its      *)
(* clarity check CLEAR; each evaluator runs at most once.              *)
C25_AtMostOnce ==
  /\ call.detect_calls <= 1
  /\ call.detect_calls = 1 =>
        /\ call.lighting_result # None
        /\ call.lighting_result.status = "GOOD_LIGHTING"
        /\ call.clarity_result # None
        /\ call.clarity_result.status = "CLEAR"
        /\ SubSeq(call.ran, 1, 4) =
             <<"load", "preprocess", "lighting", "clarity">>
  /\ \A step \in {"lighting", "clarity", "face_detection"} :
        TimesRan(step) <= 1

(* the backend found no face: invoked once, and the call ended *)
C25_Witness ==
  /\ Returned
  /\ call.result.reason = "NO_FACE"
  /\ call.detect_calls = 1
  /\ TimesRan("face_detection") = 1

(* ------------------------------------------------------------------ *)
(* C26 - keys of stage_times_ms                                        *)
(* ------------------------------------------------------------------ *)
(* the timing key of a stage of details *)
TimingKey ==
  [lighting |-> "lighting", clarity |-> "clarity", face |-> "face_detection"]

(* C26: with performance logging enabled the keys of stage_times_ms    *)
(* are load alone when the image did not decode, and otherwise load,   *)
(* preprocess and the timing keys of exactly the stages in details.    *)
C26_StageTimesKeys ==
  (Returned /\ perf_logging) =>
    DOMAIN call.result.stage_times_ms =
      IF call.image = None
        THEN {"load"}
        ELSE {"load", "preprocess"} \cup
             { TimingKey[k] : k \in DOMAIN call.result.details }

(* a call stopped at the lighting stage has no clarity and no          *)
(* face_detection entry                                                *)
C26_Witness ==
  /\ Returned
  /\ perf_logging
  /\ DOMAIN call.result.details = {"lighting"}
  /\ DOMAIN call.result.stage_times_ms = {"load", "preprocess", "lighting"}

(* ------------------------------------------------------------------ *)
(* C27 - the buffers the stages work on                                *)
(* ------------------------------------------------------------------ *)
(* the call is past the preprocess step *)
Preprocessed ==
  call.pc \in {"LIGHTING", "CLARITY", "FACE"} \/
  (call.pc = "DONE" /\ call.image # None)

(* C27: past the preprocess step the grayscale buffer the evaluators   *)
(* are handed exists (they do not convert again), has the height and   *)
(* width of the image handed to detect_face, and that image is the     *)
(* resized one: no side exceeds MAX_IMAGE_DIMENSION, and it is the     *)
(* decoded image itself when that one was small enough.                *)
C27_SharedBuffers ==
  Preprocessed =>
    /\ call.gray # None
    /\ call.gray.h = call.image.h
    /\ call.gray.w = call.image.w
    /\ call.image.h <= MAX_IMAGE_DIMENSION
    /\ call.image.w <= MAX_IMAGE_DIMENSION
    /\ (DecodedH <= MAX_IMAGE_DIMENSION /\ DecodedW <= MAX_IMAGE_DIMENSION)
         => (call.image.h = DecodedH /\ call.image.w = DecodedW)

(* the face stage of a call whose decoded image was 720 x 1280 *)
C27_Witness ==
  /\ call.pc = "FACE"
  /\ DecodedH = 720
  /\ DecodedW = 1280
  /\ call.image.w = MAX_IMAGE_DIMENSION
  /\ call.gray.w = MAX_IMAGE_DIMENSION
  /\ call.gray.h = call.image.h

(* ------------------------------------------------------------------ *)
(* C29 - target size of the resize                                     *)
(* ------------------------------------------------------------------ *)
(* C29: for a decoded image whose longer side exceeds                  *)
(* MAX_IMAGE_DIMENSION both int(w * scale) and int(h * scale) are at   *)
(* least one.                                                          *)
C29_TargetSizePositive ==
  (call.pc = "PREPROCESSING" /\ call.image.h >= 1 /\ call.image.w >= 1
     /\ max2(call.image.h, call.image.w) > MAX_IMAGE_DIMENSION) =>
    /\ int_scaled(call.image.w, max2(call.image.h, call.image.w)) >= 1
    /\ int_scaled(call.image.h, max2(call.image.h, call.image.w)) >= 1

(* ------------------------------------------------------------------ *)
(* C30 - the lighting result against its own fields                    *)
(* ------------------------------------------------------------------ *)
(* C30: in the result of check_lighting for a non-null image the status *)
(* is TOO_DARK iff the reported mean_intensity is below the reported    *)
(* min_threshold, TOO_BRIGHT iff it is above the reported               *)
(* max_threshold, and GOOD_LIGHTING otherwise.                          *)
C30_SelfConsistent ==
  (unit.fn = "check_lighting" /\ unit.image # None) =>
    LET r == unit.ret
    IN  /\ (r.status = "TOO_DARK") <=>
             (r.mean_intensity < r.min_threshold * Scale)
        /\ (r.status = "TOO_BRIGHT") <=>
             (r.mean_intensity > r.max_threshold * Scale)
        /\ (r.status = "GOOD_LIGHTING") <=>
             /\ r.mean_intensity >= r.min_threshold * Scale
             /\ r.mean_intensity <= r.max_threshold * Scale

(* ------------------------------------------------------------------ *)
(* C22, C23 - POST /verify                                             *)
(* ------------------------------------------------------------------ *)
(* POST /verify has built its response *)
Answered == http.pc = "RESPONDED" /\ http.endpoint = "verify"

(* the reasons of a failed quality gate *)
GateFailures ==
  { "TOO_DARK", "TOO_BRIGHT", "TOO_BLURRY", "NO_FACE", "MULTIPLE_FACES",
    "INVALID_IMAGE", "MODEL_NOT_FOUND" }

(* valid and reason as the response body carries them, verbose or not *)
BodyValid ==
  IF "result" \in DOMAIN http.response.content
    THEN http.response.content.result.valid
    ELSE http.response.content.valid
BodyReason ==
  IF "result" \in DOMAIN http.response.content
    THEN http.response.content.result.reason
    ELSE http.response.content.reason

(* C22: a request that passed the request checks is answered with HTTP *)
(* 200 and success=true whenever the pipeline returned a result, for a *)
(* valid image and for every failed quality gate alike, the failure    *)
(* showing only in valid=false and reason; it is answered with HTTP    *)
(* 500 and INTERNAL_ERROR only when the pipeline raised.               *)
C22_GateFailureIsSuccess ==
  (Answered /\ http.pipeline_calls = 1) =>
    /\ call.pc = "DONE" =>
          /\ http.response.status_code = 200
          /\ http.response.content.success
          /\ BodyValid = (call.result.reason = "SUCCESS")
          /\ BodyReason = call.result.reason
          /\ BodyReason \in GateFailures \cup {"SUCCESS"}
    /\ http.response.status_code = 500 =>
          /\ call.pc = "RAISED"
          /\ ~http.response.content.success
          /\ http.response.content.error.code = "INTERNAL_ERROR"
    /\ http.response.status_code \in {200, 500}

(* a blurry upload answered with 200, success=true, valid=false *)
C22_Witness ==
  /\ Answered
  /\ http.pipeline_calls = 1
  /\ http.response.status_code = 200
  /\ http.response.content.success
  /\ ~BodyValid
  /\ BodyReason = "TOO_BLURRY"

(* the extension check, the content type check, the size check and the *)
(* emptiness check fail for the request                                *)
BadExtension ==
  http.request.filename \notin { "photo.jpg", "PHOTO.PNG" }
BadContentType ==
  http.request.content_type \notin { "", "image/jpeg", "image/png", "image/jpg" }
TooLarge == http.request.contents.size > 10 * 1024 * 1024
Empty == http.request.contents.size = 0

(* the response is the error with this status and code, and the        *)
(* pipeline was not invoked                                            *)
Rejected(status_code, code) ==
  /\ http.response.status_code = status_code
  /\ ~http.response.content.success
  /\ http.response.content.error.code = code
  /\ http.pipeline_calls = 0
  /\ call.pc = "IDLE"

(* C23: the request checks apply in the order extension, content type, *)
(* size, emptiness and the first that fails decides the response: 400  *)
(* INVALID_FILE_TYPE, 400 INVALID_FILE_TYPE, 413 FILE_TOO_LARGE, 400   *)
(* EMPTY_FILE, each with success=false and without invoking the        *)
(* pipeline; a request that fails none reaches the pipeline.           *)
C23_ValidationOrder ==
  Answered =>
    IF BadExtension THEN Rejected(400, "INVALID_FILE_TYPE")
    ELSE IF BadContentType THEN Rejected(400, "INVALID_FILE_TYPE")
    ELSE IF TooLarge THEN Rejected(413, "FILE_TOO_LARGE")
    ELSE IF Empty THEN Rejected(400, "EMPTY_FILE")
    ELSE http.pipeline_calls = 1

(* an oversized upload with a wrong content type is refused for its    *)
(* type                                                                *)
C23_Witness ==
  /\ Answered
  /\ ~BadExtension
  /\ BadContentType
  /\ TooLarge
  /\ Rejected(400, "INVALID_FILE_TYPE")

(* ------------------------------------------------------------------ *)
(* C24 - GET /health                                                   *)
(* ------------------------------------------------------------------ *)
(* GET /health has built its response *)
HealthAnswered == http.pc = "RESPONDED" /\ http.endpoint = "health"

(* the answer of GET /health has the three fields, model_loaded is the *)
(* readiness set at process start, and status is healthy exactly when  *)
(* it is true                                                          *)
HealthAnswer ==
  HealthAnswered =>
    /\ DOMAIN http.response.content = {"status", "model_loaded", "version"}
    /\ http.response.content.model_loaded = (model_file = "present")
    /\ http.response.content.status =
         (IF http.response.content.model_loaded THEN "healthy" ELSE "degraded")
    /\ http.response.content.status \in {"healthy", "degraded"}

(* what the answer depends on is not written while the process runs *)
HealthStable ==
  proc = "running" => UNCHANGED <<_model_ready, model_file>>

(* C24: GET /health always answers with status, model_loaded and       *)
(* version, status is healthy exactly when the face detector was       *)
(* initialized at process start and degraded otherwise, and the answer *)
(* does not change over the life of the process.                       *)
C24_Health ==
  /\ []HealthAnswer
  /\ [][HealthStable]_vars

(* a process started without the model file answers degraded *)
C24_Witness ==
  /\ HealthAnswered
  /\ model_file = "missing"
  /\ http.response.content.status = "degraded"
  /\ ~http.response.content.model_loaded

====
